---- MODULE Spec2Model ----
(***************************************************************************)
(* Voxel sandbox (MinecraftGame.tsx, utils.ts): the sparse world store and *)
(* its generation, ray targeting, the click/key/mouse handlers, the frame  *)
(* loop and the cow behaviour engine, as a state machine.                  *)
(*                                                                         *)
(* Numbers of the program are floats.  The model keeps them in fixed       *)
(* point: positions in 1/100 of a block edge, times in 1/8 s, headings     *)
(* in 1/1000, speeds in 1/100 block per second, angles in quarter turns.   *)
(***************************************************************************)
EXTENDS Integers, Sequences, FiniteSets, Bags, TLC

VARIABLES
    world,          \* worldRef / world: block key -> the mesh [pos, type] at it
    scene,          \* block meshes added to the scene (a bag of [pos, type])
    cows,           \* the cows map: cow index -> Cow record
    selectedBlock,  \* React state selectedBlock
    isMouseLocked,  \* React state isMouseLocked
    moveState,      \* moveState.current: the six movement-intent flags
    camPos,         \* camera.position
    mouseX,         \* yaw accumulated by handleMouseMove (quarter turns)
    mouseY,         \* pitch accumulated by handleMouseMove (quarter turns)
    elapsed,        \* THREE.Clock elapsed time of the running effect instance
    last,           \* history: the handler that ran last and what it computed
    lastEdit,       \* history: the edits since generation and the latest of them
    fedClock,       \* history: per cow, the time since its latest feed (-1: never),
                    \* whether the target has stayed put within 2 blocks since then,
                    \* and whether a right click has met the cow while it was fed
    view,           \* the effect instances: the calls of the latest cleanup, in
                    \* order, and the frame loops that requestAnimationFrame keeps going
    keysDown        \* history: the movement flags whose latest key event is a key-down

vars == <<world, scene, cows, selectedBlock, isMouseLocked, moveState,
          camPos, mouseX, mouseY, elapsed, last, lastEdit, fedClock, view, keysDown>>

-----------------------------------------------------------------------------
(* Fixed point                                                             *)

Unit == 10 * 10            \* position units per block edge
HalfUnit == Unit \div 2
DirScale == 10 * 100       \* a heading component 1.0
SpeedScale == 10 * 10      \* a speed of 1.0 block per second
Second == 2 * 4            \* time units per second: eighths, which doubles add exactly

Abs(n) == IF n < 0 THEN -n ELSE n

Max2(a, b) == IF a > b THEN a ELSE b

Min2(a, b) == IF a < b THEN a ELSE b

\* Math.round on a fixed-point value: nearest integer, halves toward +infinity
MathRound(v) == (v + HalfUnit) \div Unit

\* a / b rounded to the nearest integer (b > 0), the float result kept in fixed point
DivRound(a, b) == (2 * a + b) \div (2 * b)

\* Math.sqrt kept to the nearest fixed-point integer below
RECURSIVE SqrtSearch(_, _, _)
SqrtSearch(v, lo, hi) ==
    IF lo >= hi THEN lo
    ELSE LET mid == (lo + hi + 1) \div 2
         IN  IF mid * mid <= v THEN SqrtSearch(v, mid, hi)
             ELSE SqrtSearch(v, lo, mid - 1)

Sqrt(v) == SqrtSearch(v, 0, 46340)

VecAdd(a, b) == <<a[1] + b[1], a[2] + b[2], a[3] + b[3]>>

VecSub(a, b) == <<a[1] - b[1], a[2] - b[2], a[3] - b[3]>>

VecScale(a, k) == <<a[1] * k, a[2] * k, a[3] * k>>

LengthSq(a) == a[1] * a[1] + a[2] * a[2] + a[3] * a[3]

-----------------------------------------------------------------------------
(* Block types and the key codec                                           *)

BLOCK_TYPES ==
    [GRASS |-> "grass", DIRT |-> "dirt", STONE |-> "stone",
     WOOD |-> "wood", LEAVES |-> "leaves"]

BlockType == {"grass", "dirt", "stone", "wood", "leaves"}

DigitChar(d) == <<"0", "1", "2", "3", "4", "5", "6", "7", "8", "9">>[d + 1]

RECURSIVE NatToString(_)
NatToString(n) ==
    IF n < 10 THEN <<DigitChar(n)>>
    ELSE Append(NatToString(n \div 10), DigitChar(n % 10))

\* `${n}` for an integer n: its decimal digits, "-" first when negative
NumberToString(n) == IF n < 0 THEN <<"-">> \o NatToString(-n) ELSE NatToString(n)

\* a key that leaves out the sign of its numbers
getBlockKeyUnsigned(x, y, z) ==
    NatToString(Abs(x)) \o <<",">> \o NatToString(Abs(y)) \o <<",">> \o NatToString(Abs(z))

\* `${x},${y},${z}`
getBlockKey(x, y, z) ==
    NumberToString(x) \o <<",">> \o NumberToString(y) \o <<",">> \o NumberToString(z)

KeyOf(c) == getBlockKey(c[1], c[2], c[3])

\* the digit a character stands for
DigitValue(ch) == CHOOSE d \in 0..9 : DigitChar(d) = ch

\* key.split(','): the pieces of str between the commas, cur = the piece begun
RECURSIVE SplitFrom(_, _)
SplitFrom(str, cur) ==
    IF str = <<>> THEN <<cur>>
    ELSE IF Head(str) = "," THEN <<cur>> \o SplitFrom(Tail(str), <<>>)
    ELSE SplitFrom(Tail(str), Append(cur, Head(str)))

Split(str) == SplitFrom(str, <<>>)

\* the value of a string of decimal digits, acc = the value read so far
RECURSIVE DigitsToNat(_, _)
DigitsToNat(str, acc) ==
    IF str = <<>> THEN acc
    ELSE DigitsToNat(Tail(str), 10 * acc + DigitValue(Head(str)))

\* Number(str) for the strings of an integer: "" is 0, a leading "-" negates
StringToNumber(str) ==
    IF str = <<>> THEN 0
    ELSE IF Head(str) = "-" THEN -DigitsToNat(Tail(str), 0)
    ELSE DigitsToNat(str, 0)

\* const [x, y, z] = key.split(',').map(Number)
parseBlockKey(key) ==
    LET parts == Split(key)
    IN  <<StringToNumber(parts[1]), StringToNumber(parts[2]), StringToNumber(parts[3])>>

-----------------------------------------------------------------------------
(* Terrain                                                                 *)

\* 10^4 * Math.sin(0.1 * k), k = 0..20
SinTable ==
    <<0, 998, 1987, 2955, 3894, 4794, 5646, 6442, 7174, 7833, 8415,
      8912, 9320, 9636, 9854, 9975, 9996, 9917, 9738, 9463, 9093>>

\* 10^4 * Math.cos(0.1 * k), k = 0..20
CosTable ==
    <<10000, 9950, 9801, 9553, 9211, 8776, 8253, 7648, 6967, 6216, 5403,
      4536, 3624, 2675, 1700, 707, -292, -1288, -2272, -3233, -4161>>

MathSin(x) == IF x >= 0 THEN SinTable[x + 1] ELSE -SinTable[(-x) + 1]

MathCos(z) == CosTable[Abs(z) + 1]

\* Math.floor(Math.sin(x * 0.1) * Math.cos(z * 0.1) * 3)
FloorNoise(x, z) == (MathSin(x) * MathCos(z) * 3) \div 100000000

getTerrainHeight(x, z) == FloorNoise(x, z) + 5

\* a classifier whose dirt band is one block thinner
getBlockTypeThinDirt(y, terrainHeight) ==
    IF y = terrainHeight THEN BLOCK_TYPES.GRASS
    ELSE IF y > terrainHeight - 3 THEN BLOCK_TYPES.DIRT
    ELSE BLOCK_TYPES.STONE

\* utils.ts getBlockType
getBlockType(y, terrainHeight) ==
    IF y = terrainHeight THEN BLOCK_TYPES.GRASS
    ELSE IF y >= terrainHeight - 3 THEN BLOCK_TYPES.DIRT
    ELSE BLOCK_TYPES.STONE

\* the if/else chain of generateWorld that picks blockType for (y, height)
InlineBlockType(y, height) ==
    IF y = height THEN BLOCK_TYPES.GRASS
    ELSE IF y >= height - 3 THEN BLOCK_TYPES.DIRT
    ELSE BLOCK_TYPES.STONE

-----------------------------------------------------------------------------
(* World generation (generateWorld)                                        *)

\* half-extent of the generated square of columns (20 in the program)
WorldSize == 1

ColumnCount == (2 * WorldSize + 1) * (2 * WorldSize + 1)

\* the i-th column of the nested loops: x outer, z inner, both ascending
ColumnAt(i) ==
    <<(i \div (2 * WorldSize + 1)) - WorldSize, (i % (2 * WorldSize + 1)) - WorldSize>>

Mesh(x, y, z, type) == [pos |-> <<x, y, z>>, type |-> type]

\* the offsets the three leaf loops visit and the diamond test lets through
LeafOffsets ==
    {o \in (-2..2) \X (0..2) \X (-2..2) : Abs(o[1]) + Abs(o[3]) <= 2}

\* world.set(key, mesh) for a set of meshes at distinct cells, over w
SetAll(w, meshes) ==
    LET keys == {KeyOf(m.pos) : m \in meshes}
    IN  [k \in (DOMAIN w) \union keys |->
            IF k \in keys THEN CHOOSE m \in meshes : KeyOf(m.pos) = k ELSE w[k]]

\* columns that stop one block short of their height
TerrainMeshesBelowTop(x, z) ==
    LET height == getTerrainHeight(x, z)
    IN  {Mesh(x, y, z, InlineBlockType(y, height)) : y \in 0..(height - 1)}

TerrainMeshes(x, z) ==
    LET height == getTerrainHeight(x, z)
    IN  {Mesh(x, y, z, InlineBlockType(y, height)) : y \in 0..height}

\* tree = [treeHeight, leaves]: treeHeight = 4 + floor(random * 3), leaves = the
\* offsets at which Math.random() < 0.8 came out true
TrunkMeshes(x, z, tree) ==
    LET height == getTerrainHeight(x, z)
    IN  {Mesh(x, y, z, BLOCK_TYPES.WOOD) : y \in (height + 1)..(height + tree.treeHeight)}

\* a canopy that starts at the top of the column instead of the top of the trunk
LeafMeshesAtGround(x, z, tree) ==
    LET leafY == getTerrainHeight(x, z)
    IN  {Mesh(x + o[1], leafY + o[2], z + o[3], BLOCK_TYPES.LEAVES) : o \in tree.leaves}

LeafMeshes(x, z, tree) ==
    LET leafY == getTerrainHeight(x, z) + tree.treeHeight
    IN  {Mesh(x + o[1], leafY + o[2], z + o[3], BLOCK_TYPES.LEAVES) : o \in tree.leaves}

\* trees: the columns at which Math.random() < 0.05 came out true, each with the
\* random outcomes of its tree
HasTree(x, z, trees) == <<x, z>> \in DOMAIN trees /\ getTerrainHeight(x, z) > 3

RECURSIVE GenerateFrom(_, _, _, _)
GenerateFrom(i, trees, w, s) ==
    IF i = ColumnCount THEN [world |-> w, scene |-> s]
    ELSE LET x == ColumnAt(i)[1]
             z == ColumnAt(i)[2]
             terrain == TerrainMeshes(x, z)
             w1 == SetAll(w, terrain)
             s1 == s (+) SetToBag(terrain)
         IN  IF HasTree(x, z, trees)
             THEN LET trunk == TrunkMeshes(x, z, trees[<<x, z>>])
                      leaves == LeafMeshes(x, z, trees[<<x, z>>])
                  IN  GenerateFrom(i + 1, trees,
                                   SetAll(SetAll(w1, trunk), leaves),
                                   (s1 (+) SetToBag(trunk)) (+) SetToBag(leaves))
             ELSE GenerateFrom(i + 1, trees, w1, s1)

generateWorld(trees) == GenerateFrom(0, trees, <<>>, EmptyBag)

-----------------------------------------------------------------------------
(* Cows (class Cow, spawnCows)                                             *)

Null == <<>>

WorldMin == -20

WorldMax == 20

MaxFedTime == 10

\* new Cow(x, y, z); r = the random outcomes of the constructor
NewCow(x, y, z, r) ==
    [position |-> <<x * Unit, y * Unit, z * Unit>>,
     direction |-> r.direction,
     speed |-> r.speed,
     wanderTimer |-> 0,
     maxWanderTime |-> r.maxWanderTime,
     isFed |-> FALSE,
     followTarget |-> Null,
     fedTimer |-> 0,
     maxFedTime |-> MaxFedTime * Second,
     happy |-> FALSE]

\* the number of cows the effect spawns (5 in the program)
CowCount == 1

CowIds == 1..CowCount

\* the samples the do-while loop of spawnCows draws at most: attempts < 50
MaxAttempts == 50

\* the do-while loop of spawnCows after `attempts' rounds: samples[n] = the
\* Math.random() outcomes <<x, z>> of round n; the body runs, then the test
RECURSIVE SpawnSearch(_, _)
SpawnSearch(samples, attempts) ==
    LET x == samples[attempts + 1][1]
        z == samples[attempts + 1][2]
        y == FloorNoise(x, z) + 6
    IN  IF attempts + 1 < MaxAttempts
        THEN SpawnSearch(samples, attempts + 1)
        ELSE [x |-> x, y |-> y, z |-> z, attempts |-> attempts + 1]

\* spawn[i] = the last (50th) sample of the do-while loop of cow i and the
\* random outcomes of its constructor
spawnCows(spawn) ==
    [i \in CowIds |->
        NewCow(spawn[i].x, FloorNoise(spawn[i].x, spawn[i].z) + 6, spawn[i].z, spawn[i])]

-----------------------------------------------------------------------------
(* Camera orientation (THREE.Euler "YXZ" -> quaternion) and ray casting    *)

\* <<sin, cos>> of k eighth turns, up to a common positive factor
HalfAngle(k) ==
    <<<<0, 1>>, <<1, 1>>, <<1, 0>>, <<1, -1>>,
      <<0, -1>>, <<-1, -1>>, <<-1, 0>>, <<-1, 1>>>>[(k % 8) + 1]

\* camera.quaternion.setFromEuler(euler) with euler.x = pitch, euler.y = yaw,
\* as <<x, y, z, w>> up to a common positive factor
CameraQuaternion(yaw, pitch) ==
    LET s1 == HalfAngle(pitch)[1]
        c1 == HalfAngle(pitch)[2]
        s2 == HalfAngle(yaw)[1]
        c2 == HalfAngle(yaw)[2]
    IN  <<s1 * c2, c1 * s2, -(s1 * s2), c1 * c2>>

\* v.applyQuaternion(q / |q|)
ApplyQuaternion(v, q) ==
    LET x == q[1]
        y == q[2]
        z == q[3]
        w == q[4]
        n == x * x + y * y + z * z + w * w
        r1 == (n - 2 * (y * y + z * z)) * v[1] + 2 * (x * y - z * w) * v[2]
                + 2 * (x * z + y * w) * v[3]
        r2 == 2 * (x * y + z * w) * v[1] + (n - 2 * (x * x + z * z)) * v[2]
                + 2 * (y * z - x * w) * v[3]
        r3 == 2 * (x * z - y * w) * v[1] + 2 * (y * z + x * w) * v[2]
                + (n - 2 * (x * x + y * y)) * v[3]
    IN  <<DivRound(r1, n), DivRound(r2, n), DivRound(r3, n)>>

\* new THREE.Vector3(0, 0, -1).applyQuaternion(camera.quaternion)
ViewDirection(yaw, pitch) == ApplyQuaternion(<<0, 0, -1>>, CameraQuaternion(yaw, pitch))

\* the axis (1, 2 or 3) of an axis-aligned direction
AxisOf(dir) == CHOOSE a \in 1..3 : dir[a] # 0

\* the ray enters the unit cube of mesh m through its face that looks at the origin
\* (front faces only): the distance along the ray, or -1 when it misses
FaceDistance(origin, dir, m) ==
    LET a == AxisOf(dir)
        plane == m.pos[a] * Unit - dir[a] * HalfUnit
        dist == (plane - origin[a]) * dir[a]
    IN  IF /\ dist >= 0
           /\ \A b \in 1..3 : b # a => Abs(origin[b] - m.pos[b] * Unit) <= HalfUnit
        THEN dist ELSE -1

Intersection(origin, dir, m) ==
    [object |-> m,
     distance |-> FaceDistance(origin, dir, m),
     point |-> VecAdd(origin, VecScale(dir, FaceDistance(origin, dir, m))),
     normal |-> VecScale(dir, -1)]

\* raycaster.intersectObjects(meshes)[0]: the intersections at the least distance
\* (more than one only when the ray runs along a shared edge)
NearestIntersections(origin, dir, meshes) ==
    LET hits == {m \in meshes : FaceDistance(origin, dir, m) >= 0}
    IN  {Intersection(origin, dir, m) : m \in
            {h \in hits : \A g \in hits :
                FaceDistance(origin, dir, h) <= FaceDistance(origin, dir, g)}}

\* lines 406-430 on one intersection; point.add and normal.multiplyScalar work
\* in place, so the later point.sub(normal) sees both changed
TargetOf(intersect) ==
    LET normal0 == VecScale(intersect.normal, Unit)
        normal1 == <<normal0[1] \div 2, normal0[2] \div 2, normal0[3] \div 2>>
        point1 == VecAdd(intersect.point, normal1)
        point2 == VecSub(point1, normal1)
    IN  [place |-> <<MathRound(point1[1]), MathRound(point1[2]), MathRound(point1[3])>>,
         remove |-> <<MathRound(point2[1]), MathRound(point2[2]), MathRound(point2[3])>>]

WorldMeshes(w) == {w[k] : k \in DOMAIN w}

\* getTargetBlock(camera, world): the targets it may return, Null when none
getTargetBlock(origin, yaw, pitch, w) ==
    LET its == NearestIntersections(origin, ViewDirection(yaw, pitch), WorldMeshes(w))
    IN  IF its = {} THEN {Null} ELSE {TargetOf(it) : it \in its}

\* the ray passes through the body of the cow (a box of one block edge around
\* cow.position) in front of the camera: the distance to it, or -1
CowDistance(origin, dir, cow) ==
    LET a == AxisOf(dir)
        dist == (cow.position[a] - origin[a]) * dir[a]
    IN  IF /\ dist > 0
           /\ \A b \in 1..3 : b # a => Abs(origin[b] - cow.position[b]) <= HalfUnit
        THEN dist ELSE -1

\* raycaster.intersectObjects(cowMeshes, true)[0], as the cows it may belong to
NearestCows(origin, dir, cs) ==
    LET hits == {i \in DOMAIN cs : CowDistance(origin, dir, cs[i]) >= 0}
    IN  {h \in hits : \A g \in hits :
            CowDistance(origin, dir, cs[h]) <= CowDistance(origin, dir, cs[g])}

-----------------------------------------------------------------------------
(* Cow behaviour (Cow.update, Cow.feed)                                    *)

\* v.normalize(): v / (|v| || 1), components in DirScale
Normalize(v) ==
    IF LengthSq(v) = 0 THEN <<0, 0, 0>>
    ELSE LET len == Sqrt(LengthSq(v))
         IN  <<DivRound(v[1] * DirScale, len), DivRound(v[2] * DirScale, len),
               DivRound(v[3] * DirScale, len)>>

\* a bounds test that leaves out the buffer line itself
isNearWorldBoundsStrict(cow) ==
    LET buffer == 3
    IN  \/ cow.position[1] < (WorldMin + buffer) * Unit
        \/ cow.position[1] > (WorldMax - buffer) * Unit
        \/ cow.position[3] < (WorldMin + buffer) * Unit
        \/ cow.position[3] > (WorldMax - buffer) * Unit

isNearWorldBounds(cow) ==
    LET buffer == 3
    IN  \/ cow.position[1] <= (WorldMin + buffer) * Unit
        \/ cow.position[1] >= (WorldMax - buffer) * Unit
        \/ cow.position[3] <= (WorldMin + buffer) * Unit
        \/ cow.position[3] >= (WorldMax - buffer) * Unit

\* a fed timer that reverts only once it has passed maxFedTime
UpdateFedTimerLate(cow, delta) ==
    IF cow.isFed
    THEN IF cow.fedTimer + delta > cow.maxFedTime
         THEN [cow EXCEPT !.isFed = FALSE, !.followTarget = Null,
                          !.fedTimer = 0, !.happy = FALSE]
         ELSE [cow EXCEPT !.fedTimer = cow.fedTimer + delta]
    ELSE cow

\* a fed timer whose revert leaves the follow target in place
UpdateFedTimerKeepsTarget(cow, delta) ==
    IF cow.isFed
    THEN IF cow.fedTimer + delta >= cow.maxFedTime
         THEN [cow EXCEPT !.isFed = FALSE, !.fedTimer = 0, !.happy = FALSE]
         ELSE [cow EXCEPT !.fedTimer = cow.fedTimer + delta]
    ELSE cow

\* lines 133-142: the fed timer
UpdateFedTimer(cow, delta) ==
    IF cow.isFed
    THEN IF cow.fedTimer + delta >= cow.maxFedTime
         THEN [cow EXCEPT !.isFed = FALSE, !.followTarget = Null,
                          !.fedTimer = 0, !.happy = FALSE]
         ELSE [cow EXCEPT !.fedTimer = cow.fedTimer + delta]
    ELSE cow

\* a follow branch that heads away from the target
UpdateBehaviourAway(cow, r) ==
    IF cow.isFed /\ cow.followTarget # Null
    THEN LET directionToTarget == VecSub(cow.position, cow.followTarget)
         IN  IF LengthSq(directionToTarget) > (2 * Unit) * (2 * Unit)
             THEN [cow EXCEPT !.direction = Normalize(directionToTarget),
                              !.speed = (3 * SpeedScale) \div 2]
             ELSE [cow EXCEPT !.direction = <<0, 0, 0>>]
    ELSE IF cow.wanderTimer >= cow.maxWanderTime \/ isNearWorldBounds(cow)
         THEN [cow EXCEPT !.speed = r.speed, !.wanderTimer = 0,
                          !.maxWanderTime = r.maxWanderTime,
                          !.direction = r.direction]
         ELSE [cow EXCEPT !.speed = r.speed]

\* a follow branch that keeps its heading when the target is near
UpdateBehaviourNoStop(cow, r) ==
    IF cow.isFed /\ cow.followTarget # Null
    THEN LET directionToTarget == VecSub(cow.followTarget, cow.position)
         IN  IF LengthSq(directionToTarget) > (2 * Unit) * (2 * Unit)
             THEN [cow EXCEPT !.direction = Normalize(directionToTarget),
                              !.speed = (3 * SpeedScale) \div 2]
             ELSE cow
    ELSE IF cow.wanderTimer >= cow.maxWanderTime \/ isNearWorldBounds(cow)
         THEN [cow EXCEPT !.speed = r.speed, !.wanderTimer = 0,
                          !.maxWanderTime = r.maxWanderTime,
                          !.direction = r.direction]
         ELSE [cow EXCEPT !.speed = r.speed]

\* lines 144-175: follow the target or wander; r = the random outcomes of the tick
UpdateBehaviour(cow, r) ==
    IF cow.isFed /\ cow.followTarget # Null
    THEN LET directionToTarget == VecSub(cow.followTarget, cow.position)
         IN  IF LengthSq(directionToTarget) > (2 * Unit) * (2 * Unit)
             THEN [cow EXCEPT !.direction = Normalize(directionToTarget),
                              !.speed = (3 * SpeedScale) \div 2]
             ELSE [cow EXCEPT !.direction = <<0, 0, 0>>]
    ELSE IF cow.wanderTimer >= cow.maxWanderTime \/ isNearWorldBounds(cow)
         THEN [cow EXCEPT !.speed = r.speed, !.wanderTimer = 0,
                          !.maxWanderTime = r.maxWanderTime,
                          !.direction = r.direction]
         ELSE [cow EXCEPT !.speed = r.speed]

\* no clamp at all
ClampNothing(v) == v

\* Math.max(worldBounds.min + 2, Math.min(worldBounds.max - 2, v))
ClampToBounds(v) == Max2((WorldMin + 2) * Unit, Min2((WorldMax - 2) * Unit, v))

\* direction * speed * delta, in position units
Movement(cow, delta) ==
    LET den == (DirScale * SpeedScale * Second) \div Unit
    IN  <<DivRound(cow.direction[1] * cow.speed * delta, den),
          DivRound(cow.direction[2] * cow.speed * delta, den),
          DivRound(cow.direction[3] * cow.speed * delta, den)>>

\* lines 177-189: move, then clamp x and z
MoveAndClamp(cow, delta) ==
    LET p == VecAdd(cow.position, Movement(cow, delta))
    IN  [cow EXCEPT !.position = <<ClampToBounds(p[1]), p[2], ClampToBounds(p[3])>>]

\* Cow.update(delta, worldBounds)
CowUpdate(cow, delta, r) ==
    MoveAndClamp(
        UpdateBehaviour(
            UpdateFedTimer([cow EXCEPT !.wanderTimer = cow.wanderTimer + delta], delta),
            r),
        delta)

\* Cow.feed(playerPosition)
\* a feed that marks the cow fed but gives it nothing to follow
CowFeedNoTarget(cow, playerPosition) ==
    [cow EXCEPT !.isFed = TRUE, !.fedTimer = 0, !.happy = TRUE]

CowFeed(cow, playerPosition) ==
    [cow EXCEPT !.isFed = TRUE, !.followTarget = playerPosition,
                !.fedTimer = 0, !.happy = TRUE]

\* the body of cows.forEach in animate: refresh the follow target, then update
CowFrame(cow, cameraPosition, delta, r) ==
    CowUpdate(IF cow.isFed /\ cow.followTarget # Null
              THEN [cow EXCEPT !.followTarget = cameraPosition]
              ELSE cow,
              delta, r)

-----------------------------------------------------------------------------
(* The effect of MinecraftGame (useEffect, deps [isMouseLocked,            *)
(* selectedBlock]) and its handlers                                        *)

NeverFed == [time |-> -1, held |-> FALSE, refed |-> FALSE]

\* the points a and b are at most 2 blocks apart
Within2(a, b) == LengthSq(VecSub(a, b)) <= (2 * Unit) * (2 * Unit)

MoveFlags == {"forward", "backward", "left", "right", "up", "down"}

\* the switch of handleKeyDown / handleKeyUp; "none" for any other code
KeyFlag(code) ==
    CASE code = "KeyW" -> "forward"
      [] code = "KeyS" -> "backward"
      [] code = "KeyA" -> "left"
      [] code = "KeyD" -> "right"
      [] code = "Space" -> "up"
      [] code = "ShiftLeft" -> "down"
      [] OTHER -> "none"

\* camera.position.set(0, 10, 10)
InitialCamera == <<0, 10 * Unit, 10 * Unit>>

NoEdit == [n |-> 0, kind |-> "none"]

Idle == [op |-> "idle"]

\* the runs of the effect the model follows (each starts a frame loop)
MaxLoops == 3

\* after the first run of the effect: no cleanup yet, animate() started once
FirstView == [cleanup |-> <<>>, loops |-> 1]

Call(op, arg) == [op |-> op, arg |-> arg]

\* scene.remove(cow.mesh) for each cow of cs from index i on, in map order
RECURSIVE RemoveCowMeshes(_, _)
RemoveCowMeshes(cs, i) ==
    IF i > Len(cs) THEN <<>>
    ELSE <<Call("scene.remove", <<"cow", i>>)>> \o RemoveCowMeshes(cs, i + 1)

\* the calls of the cleanup function of the effect, in the order of the code
Cleanup(cs) ==
    <<Call("removeEventListener", <<"pointerlockchange">>),
      Call("removeEventListener", <<"mousemove">>),
      Call("removeEventListener", <<"keydown">>),
      Call("removeEventListener", <<"keyup">>),
      Call("removeEventListener", <<"mousedown">>),
      Call("removeEventListener", <<"resize">>)>>
    \o RemoveCowMeshes(cs, 1)
    \o <<Call("cows.clear", <<>>),
         Call("removeChild", <<"renderer.domElement">>),
         Call("renderer.dispose", <<>>)>>

\* the cleanup of the previous run, then the body of the effect: a new scene,
\* camera, world, cows and clock, and a new frame loop beside the old ones;
\* generated = generateWorld(scene, materials), spawned = spawnCows(scene, 5)
RunEffect(generated, spawned) ==
    /\ world' = generated.world
    /\ scene' = generated.scene
    /\ cows' = spawned
    /\ camPos' = InitialCamera
    /\ mouseX' = 0
    /\ mouseY' = 0
    /\ elapsed' = 0
    /\ lastEdit' = NoEdit
    /\ fedClock' = [i \in DOMAIN spawned |-> NeverFed]
    /\ view.loops < MaxLoops
    /\ view' = [cleanup |-> Cleanup(cows), loops |-> view.loops + 1]

\* setIsMouseLocked(locked); a changed value re-renders and re-runs the effect
handlePointerLockChange(locked, generated, spawned) ==
    /\ last' = Idle
    /\ IF locked # isMouseLocked
       THEN /\ isMouseLocked' = locked
            /\ RunEffect(generated, spawned)
            /\ UNCHANGED <<selectedBlock, moveState, keysDown>>
       ELSE UNCHANGED <<world, scene, cows, selectedBlock, isMouseLocked, moveState, keysDown,
                        camPos, mouseX, mouseY, elapsed, lastEdit, fedClock, view>>

\* a button of the block selector (rendered while isMouseLocked): setSelectedBlock
setSelectedBlock(blockType, generated, spawned) ==
    /\ isMouseLocked
    /\ last' = Idle
    /\ IF blockType # selectedBlock
       THEN /\ selectedBlock' = blockType
            /\ RunEffect(generated, spawned)
            /\ UNCHANGED <<isMouseLocked, moveState, keysDown>>
       ELSE UNCHANGED <<world, scene, cows, selectedBlock, isMouseLocked, moveState, keysDown,
                        camPos, mouseX, mouseY, elapsed, lastEdit, fedClock, view>>

\* the yaw the model lets the mouse accumulate, in quarter turns either way
MaxYaw == 2

\* a look handler that accumulates the pitch without clamping it
handleMouseMoveNoClamp(movementX, movementY) ==
    /\ last' = [op |-> "handleMouseMove", movementX |-> movementX,
                movementY |-> movementY, mouseX |-> mouseX, mouseY |-> mouseY]
    /\ IF ~isMouseLocked
       THEN UNCHANGED <<mouseX, mouseY>>
       ELSE /\ Abs(mouseX - movementX) <= MaxYaw
            /\ mouseX' = mouseX - movementX
            /\ mouseY' = mouseY - movementY
    /\ UNCHANGED <<world, scene, cows, selectedBlock, isMouseLocked, moveState, keysDown,
                   camPos, elapsed, lastEdit, fedClock, view>>

\* movementX, movementY in units of a quarter turn of look (pi/2 / 0.002 pixels);
\* last keeps the event and the yaw and pitch it found
handleMouseMove(movementX, movementY) ==
    /\ last' = [op |-> "handleMouseMove", movementX |-> movementX,
                movementY |-> movementY, mouseX |-> mouseX, mouseY |-> mouseY]
    /\ IF ~isMouseLocked
       THEN UNCHANGED <<mouseX, mouseY>>
       ELSE /\ Abs(mouseX - movementX) <= MaxYaw
            /\ mouseX' = mouseX - movementX
            /\ mouseY' = Max2(-1, Min2(1, mouseY - movementY))
    /\ UNCHANGED <<world, scene, cows, selectedBlock, isMouseLocked, moveState, keysDown,
                   camPos, elapsed, lastEdit, fedClock, view>>

handleKeyDown(code) ==
    /\ last' = Idle
    /\ moveState' = IF KeyFlag(code) = "none" THEN moveState
                    ELSE [moveState EXCEPT ![KeyFlag(code)] = TRUE]
    /\ keysDown' = IF KeyFlag(code) = "none" THEN keysDown
                   ELSE keysDown \cup {KeyFlag(code)}
    /\ UNCHANGED <<world, scene, cows, selectedBlock, isMouseLocked,
                   camPos, mouseX, mouseY, elapsed, lastEdit, fedClock, view>>

\* a key-up handler that leaves the flag of the released key set
handleKeyUpSticky(code) ==
    /\ last' = Idle
    /\ moveState' = moveState
    /\ keysDown' = IF KeyFlag(code) = "none" THEN keysDown
                   ELSE keysDown \ {KeyFlag(code)}
    /\ UNCHANGED <<world, scene, cows, selectedBlock, isMouseLocked,
                   camPos, mouseX, mouseY, elapsed, lastEdit, fedClock, view>>

handleKeyUp(code) ==
    /\ last' = Idle
    /\ moveState' = IF KeyFlag(code) = "none" THEN moveState
                    ELSE [moveState EXCEPT ![KeyFlag(code)] = FALSE]
    /\ keysDown' = IF KeyFlag(code) = "none" THEN keysDown
                   ELSE keysDown \ {KeyFlag(code)}
    /\ UNCHANGED <<world, scene, cows, selectedBlock, isMouseLocked,
                   camPos, mouseX, mouseY, elapsed, lastEdit, fedClock, view>>


\* the edits (successful place or remove) the model follows after a generation
MaxEdits == 2

NoIntersection == [distance |-> -1]

\* a store that reports every cell as empty
HasBlockNever(w, key) == FALSE

\* world.has(key); world.get(key) is a mesh
HasBlock(w, key) == key \in DOMAIN w

\* a removal that drops the mesh from the scene and forgets world.delete(key)
RemoveBlockKeepsEntry(key) ==
    /\ lastEdit.n < MaxEdits
    /\ scene' = scene (-) SetToBag({world[key]})
    /\ world' = world
    /\ lastEdit' = IF lastEdit.kind = "placed" /\ lastEdit.key = key
                   THEN [lastEdit EXCEPT !.n = lastEdit.n + 1, !.kind = "roundtrip"]
                   ELSE [n |-> lastEdit.n + 1, kind |-> "removed", key |-> key]

\* scene.remove(mesh); world.delete(key)
RemoveBlock(key) ==
    /\ lastEdit.n < MaxEdits
    /\ scene' = scene (-) SetToBag({world[key]})
    /\ world' = [k \in (DOMAIN world) \ {key} |-> world[k]]
    /\ lastEdit' = IF lastEdit.kind = "placed" /\ lastEdit.key = key
                   THEN [lastEdit EXCEPT !.n = lastEdit.n + 1, !.kind = "roundtrip"]
                   ELSE [n |-> lastEdit.n + 1, kind |-> "removed", key |-> key]

\* a placement that always uses the material of the default type
PlaceBlockDefault(cell) ==
    /\ lastEdit.n < MaxEdits
    /\ scene' = scene (+) SetToBag({Mesh(cell[1], cell[2], cell[3], BLOCK_TYPES.GRASS)})
    /\ world' = SetAll(world, {Mesh(cell[1], cell[2], cell[3], BLOCK_TYPES.GRASS)})
    /\ lastEdit' = [n |-> lastEdit.n + 1, kind |-> "placed", key |-> KeyOf(cell),
                    world |-> world, scene |-> scene]

\* scene.add(mesh); world.set(key, mesh) with a mesh of materials[selectedBlock]
PlaceBlock(cell) ==
    /\ lastEdit.n < MaxEdits
    /\ scene' = scene (+) SetToBag({Mesh(cell[1], cell[2], cell[3], selectedBlock)})
    /\ world' = SetAll(world, {Mesh(cell[1], cell[2], cell[3], selectedBlock)})
    /\ lastEdit' = [n |-> lastEdit.n + 1, kind |-> "placed", key |-> KeyOf(cell),
                    world |-> world, scene |-> scene]

\* history: a right click whose ray first meets a cow that is fed (the feed
\* branch is not taken) is noted in the clock of that cow
Refed(button, clicked) ==
    IF clicked # 0 /\ button = 2
    THEN [fedClock EXCEPT ![clicked].refed = TRUE]
    ELSE fedClock

\* a click that feeds the cow it meets whether or not the cow is fed already
ClickOnFeedsAgain(button, clicked, it) ==
    LET seen == [op |-> "click", button |-> button, cow |-> clicked, hit |-> it]
    IN  IF clicked # 0 /\ button = 2
        THEN /\ cows' = [cows EXCEPT ![clicked] = CowFeed(cows[clicked], camPos)]
             /\ fedClock' = [fedClock EXCEPT ![clicked] =
                                [time |-> 0, held |-> Within2(camPos, cows[clicked].position),
                                 refed |-> FALSE]]
             /\ last' = seen @@ [outcome |-> "fed"]
             /\ UNCHANGED <<world, scene, lastEdit>>
        ELSE IF it.distance < 0
        THEN /\ last' = seen @@ [outcome |-> "noTarget"]
             /\ fedClock' = Refed(button, clicked)
             /\ UNCHANGED <<world, scene, cows, lastEdit>>
        ELSE LET target == TargetOf(it)
             IN  IF button = 0
                 THEN IF HasBlock(world, KeyOf(target.remove))
                      THEN /\ RemoveBlock(KeyOf(target.remove))
                           /\ last' = seen @@ [outcome |-> "removed", target |-> target]
                           /\ fedClock' = Refed(button, clicked)
                           /\ UNCHANGED cows
                      ELSE /\ last' = seen @@ [outcome |-> "removeAbsent", target |-> target]
                           /\ fedClock' = Refed(button, clicked)
                           /\ UNCHANGED <<world, scene, cows, lastEdit>>
                 ELSE IF button = 2
                 THEN IF ~HasBlock(world, KeyOf(target.place))
                      THEN /\ PlaceBlock(target.place)
                           /\ last' = seen @@ [outcome |-> "placed", target |-> target]
                           /\ fedClock' = Refed(button, clicked)
                           /\ UNCHANGED cows
                      ELSE /\ last' = seen @@ [outcome |-> "placeOccupied", target |-> target]
                           /\ fedClock' = Refed(button, clicked)
                           /\ UNCHANGED <<world, scene, cows, lastEdit>>
                 ELSE /\ last' = seen @@ [outcome |-> "otherButton", target |-> target]
                      /\ fedClock' = Refed(button, clicked)
                      /\ UNCHANGED <<world, scene, cows, lastEdit>>

\* handleClick once the two ray casts are done: clicked = the cow of
\* cowIntersects[0] (0 when the ray meets no cow), it = intersects[0] of
\* getTargetBlock (NoIntersection when the ray meets no block)
ClickOn(button, clicked, it) ==
    LET seen == [op |-> "click", button |-> button, cow |-> clicked, hit |-> it]
    IN  IF clicked # 0 /\ button = 2 /\ ~cows[clicked].isFed
        THEN /\ cows' = [cows EXCEPT ![clicked] = CowFeed(cows[clicked], camPos)]
             /\ fedClock' = [fedClock EXCEPT ![clicked] =
                                [time |-> 0, held |-> Within2(camPos, cows[clicked].position),
                                 refed |-> FALSE]]
             /\ last' = seen @@ [outcome |-> "fed"]
             /\ UNCHANGED <<world, scene, lastEdit>>
        ELSE IF it.distance < 0
        THEN /\ last' = seen @@ [outcome |-> "noTarget"]
             /\ fedClock' = Refed(button, clicked)
             /\ UNCHANGED <<world, scene, cows, lastEdit>>
        ELSE LET target == TargetOf(it)
             IN  IF button = 0
                 THEN IF HasBlock(world, KeyOf(target.remove))
                      THEN /\ RemoveBlock(KeyOf(target.remove))
                           /\ last' = seen @@ [outcome |-> "removed", target |-> target]
                           /\ fedClock' = Refed(button, clicked)
                           /\ UNCHANGED cows
                      ELSE /\ last' = seen @@ [outcome |-> "removeAbsent", target |-> target]
                           /\ fedClock' = Refed(button, clicked)
                           /\ UNCHANGED <<world, scene, cows, lastEdit>>
                 ELSE IF button = 2
                 THEN IF ~HasBlock(world, KeyOf(target.place))
                      THEN /\ PlaceBlock(target.place)
                           /\ last' = seen @@ [outcome |-> "placed", target |-> target]
                           /\ fedClock' = Refed(button, clicked)
                           /\ UNCHANGED cows
                      ELSE /\ last' = seen @@ [outcome |-> "placeOccupied", target |-> target]
                           /\ fedClock' = Refed(button, clicked)
                           /\ UNCHANGED <<world, scene, cows, lastEdit>>
                 ELSE /\ last' = seen @@ [outcome |-> "otherButton", target |-> target]
                      /\ fedClock' = Refed(button, clicked)
                      /\ UNCHANGED <<world, scene, cows, lastEdit>>

handleClick(button) ==
    /\ UNCHANGED <<selectedBlock, isMouseLocked, moveState, keysDown, camPos, mouseX, mouseY, elapsed,
                   view>>
    /\ IF ~isMouseLocked
       THEN /\ last' = [op |-> "click", button |-> button, outcome |-> "unlocked"]
            /\ UNCHANGED <<world, scene, cows, lastEdit, fedClock>>
       ELSE LET dir == ViewDirection(mouseX, mouseY)
                cowHits == NearestCows(camPos, dir, cows)
                its == NearestIntersections(camPos, dir, WorldMeshes(world))
            IN  \E clicked \in (IF cowHits = {} THEN {0} ELSE cowHits) :
                \E it \in (IF its = {} THEN {NoIntersection} ELSE its) :
                    ClickOn(button, clicked, it)

\* lines 613-623: direction.current from the flags, normalized, times 10 * delta
MoveVector(flags, delta) ==
    LET d == <<(IF flags.right THEN 1 ELSE 0) - (IF flags.left THEN 1 ELSE 0),
               (IF flags.up THEN 1 ELSE 0) - (IF flags.down THEN 1 ELSE 0),
               (IF flags.backward THEN 1 ELSE 0) - (IF flags.forward THEN 1 ELSE 0)>>
        n == Normalize(VecScale(d, DirScale))
    IN  <<DivRound(n[1] * 10 * delta * Unit, DirScale * Second),
          DivRound(n[2] * 10 * delta * Unit, DirScale * Second),
          DivRound(n[3] * 10 * delta * Unit, DirScale * Second)>>

\* lines 611-639: the camera position after the movement of one frame
MoveCamera(pos, flags, yaw, pitch, delta) ==
    LET v == MoveVector(flags, delta)
        q == CameraQuaternion(yaw, pitch)
        horizontalDirection == ApplyQuaternion(<<v[1], 0, v[3]>>, <<0, q[2], q[3], q[4]>>)
        moved == VecAdd(pos, horizontalDirection)
    IN  <<moved[1], moved[2] + v[2], moved[3]>>

\* a frame that moves the viewer whether the pointer is locked or not
animateUnlocked(delta, r) ==
    /\ elapsed' = elapsed + delta
    /\ camPos' = MoveCamera(camPos, moveState, mouseX, mouseY, delta)
    /\ cows' = [i \in DOMAIN cows |-> CowFrame(cows[i], camPos', delta, r[i])]
    /\ fedClock' = [i \in DOMAIN cows |->
                        IF fedClock[i].time < 0 \/ fedClock[i].time >= cows[i].maxFedTime
                        THEN fedClock[i]
                        ELSE [time |-> Min2(fedClock[i].time + delta, cows[i].maxFedTime),
                              held |-> /\ fedClock[i].held
                                       /\ camPos' = camPos
                                       /\ Within2(camPos, cows[i].position),
                              refed |-> fedClock[i].refed]]
    /\ last' = [op |-> "animate", delta |-> delta, cows |-> cows, camPos |-> camPos]
    /\ UNCHANGED <<world, scene, selectedBlock, isMouseLocked, moveState, keysDown,
                   mouseX, mouseY, lastEdit, view>>

\* one frame of animate; delta = clock.getDelta(), r[i] = the random outcomes of
\* the update of cow i
animate(delta, r) ==
    /\ elapsed' = elapsed + delta
    /\ camPos' = IF isMouseLocked
                 THEN MoveCamera(camPos, moveState, mouseX, mouseY, delta)
                 ELSE camPos
    /\ cows' = [i \in DOMAIN cows |-> CowFrame(cows[i], camPos', delta, r[i])]
    /\ fedClock' = [i \in DOMAIN cows |->
                        IF fedClock[i].time < 0 \/ fedClock[i].time >= cows[i].maxFedTime
                        THEN fedClock[i]
                        ELSE [time |-> Min2(fedClock[i].time + delta, cows[i].maxFedTime),
                              held |-> /\ fedClock[i].held
                                       /\ camPos' = camPos
                                       /\ Within2(camPos, cows[i].position),
                              refed |-> fedClock[i].refed]]
    /\ last' = [op |-> "animate", delta |-> delta, cows |-> cows, camPos |-> camPos]
    /\ UNCHANGED <<world, scene, selectedBlock, isMouseLocked, moveState, keysDown,
                   mouseX, mouseY, lastEdit, view>>

-----------------------------------------------------------------------------
(* The game: the inputs the model feeds it                                 *)

\* the viewer positions the model follows: every coordinate within this many blocks
CameraRange == 10

\* the simulated seconds the model follows after each run of the effect
MaxElapsed == 2

InCameraRange(pos) == \A a \in 1..3 : Abs(pos[a]) <= CameraRange * Unit

GameKeys == {"KeyW", "KeyQ"}

Buttons == {0, 1, 2}

GameLooks == {<<0, 1>>, <<0, -1>>}

SelectableBlocks == {BLOCK_TYPES.GRASS, BLOCK_TYPES.STONE}

\* outcomes of the Math.random() calls of generateWorld: no tree, or one tree
\* on the middle column whose leaf loop emits the offset (0, 0, 0) only
GameTrees ==
    {<<>>, (<<0, 0>> :> [treeHeight |-> 4, leaves |-> {<<0, 0, 0>>}])}

\* outcomes of the Math.random() calls of spawnCows and of the Cow constructor
GameSpawns ==
    {[i \in CowIds |-> [x |-> 0, z |-> 0, direction |-> <<DirScale, 0, 0>>,
                        speed |-> SpeedScale \div 2, maxWanderTime |-> 3 * Second]]}

\* outcomes of the Math.random() calls of one Cow.update
GameTicks ==
    {[i \in CowIds |-> [direction |-> <<0, 0, DirScale>>, speed |-> SpeedScale \div 2,
                        maxWanderTime |-> 3 * Second]]}

GameDeltas == {Second}

GameWorlds == {generateWorld(trees) : trees \in GameTrees}

GameCows == {spawnCows(spawn) : spawn \in GameSpawns}

Init ==
    /\ selectedBlock = BLOCK_TYPES.GRASS
    /\ isMouseLocked = FALSE
    /\ moveState = [f \in MoveFlags |-> FALSE]
    /\ keysDown = {}
    /\ last = Idle
    /\ \E generated \in GameWorlds : \E spawned \in GameCows :
        /\ world = generated.world
        /\ scene = generated.scene
        /\ cows = spawned
    /\ camPos = InitialCamera
    /\ mouseX = 0
    /\ mouseY = 0
    /\ elapsed = 0
    /\ lastEdit = NoEdit
    /\ fedClock = [i \in CowIds |-> NeverFed]
    /\ view = FirstView

\* a frame of the loop of an earlier run of the effect, which no cleanup
\* cancelled: its cows map is cleared, its camera, scene and renderer are the
\* old ones, so nothing of the running instance changes
StaleFrame ==
    /\ view.loops > 1
    /\ last' = [op |-> "staleAnimate"]
    /\ UNCHANGED <<world, scene, cows, selectedBlock, isMouseLocked, moveState, keysDown,
                   camPos, mouseX, mouseY, elapsed, lastEdit, fedClock, view>>

\* a frame of animate, within the time and the region the model follows
GameFrame(delta, r) ==
    /\ elapsed + delta <= MaxElapsed * Second
    /\ animate(delta, r)
    /\ InCameraRange(camPos')

Next ==
    \/ \E locked \in BOOLEAN : \E generated \in GameWorlds : \E spawned \in GameCows :
        handlePointerLockChange(locked, generated, spawned)
    \/ \E blockType \in SelectableBlocks : \E generated \in GameWorlds :
        \E spawned \in GameCows : setSelectedBlock(blockType, generated, spawned)
    \/ \E m \in GameLooks : handleMouseMove(m[1], m[2])
    \/ \E code \in GameKeys : handleKeyDown(code)
    \/ \E code \in GameKeys : handleKeyUp(code)
    \/ \E button \in Buttons : handleClick(button)
    \/ \E delta \in GameDeltas : \E r \in GameTicks : GameFrame(delta, r)
    \/ StaleFrame

Spec == Init /\ [][Next]_vars

-----------------------------------------------------------------------------
(* The cows of a running session: the game taken up mid-session, under     *)
(* pointer lock, with a wandering cow in the view ray of the camera        *)

\* the simulated seconds the model follows a session of cows
MaxCowSeconds == 11

\* the blocks from the origin the camera may fly in a session of cows
CowCameraRange == 30

\* where a cow has wandered to (x; z = 0), having spawned on the column (0, 0)
CowXs == {0, 17, 18}

\* a wandering cow at (x, 6, 0), heading +x
CowAt(x) ==
    [NewCow(0, FloorNoise(0, 0) + 6, 0,
            [direction |-> <<DirScale, 0, 0>>, speed |-> SpeedScale \div 2,
             maxWanderTime |-> 3 * Second])
        EXCEPT !.position = <<x * Unit, @[2], 0>>]

\* where the camera has flown to, as an offset from the first cow, and the
\* look <<mouseX, mouseY>> that points its view ray at that cow
CowViews ==
    {[offset |-> <<10, 0, 0>>, look |-> <<1, 0>>],
     [offset |-> <<0, 2, 0>>, look |-> <<0, -1>>],
     [offset |-> <<0, 10, 0>>, look |-> <<0, -1>>]}

\* outcomes of the Math.random() calls of one Cow.update: a diagonal heading
\* (0.707, 0, 0.707) towards the +x and +z bounds at the top speed
CowTicks ==
    {[i \in CowIds |-> [direction |-> <<707, 0, 707>>, speed |-> SpeedScale,
                        maxWanderTime |-> 3 * Second]]}

\* clock.getDelta() of a frame: two seconds, three seconds
CowDeltas == {2 * Second, 3 * Second}

CowKeys == {"KeyW"}

InitCow ==
    /\ selectedBlock = BLOCK_TYPES.GRASS
    /\ isMouseLocked = TRUE
    /\ moveState = [f \in MoveFlags |-> FALSE]
    /\ keysDown = {}
    /\ last = Idle
    /\ world = generateWorld(<<>>).world
    /\ scene = generateWorld(<<>>).scene
    /\ \E xs \in [CowIds -> CowXs] : \E from \in CowViews :
        /\ cows = [i \in CowIds |-> CowAt(xs[i])]
        /\ camPos = VecAdd(cows[1].position, VecScale(from.offset, Unit))
        /\ mouseX = from.look[1]
        /\ mouseY = from.look[2]
    /\ elapsed = 0
    /\ lastEdit = NoEdit
    /\ fedClock = [i \in CowIds |-> NeverFed]
    /\ view = FirstView

\* a frame of animate, within the time and the region the model follows
CowFrameStep(delta, r) ==
    /\ elapsed + delta <= MaxCowSeconds * Second
    /\ animate(delta, r)
    /\ \A a \in 1..3 : Abs(camPos'[a]) <= CowCameraRange * Unit

NextCow ==
    \/ handleClick(2)
    \/ \E code \in CowKeys : handleKeyDown(code)
    \/ \E code \in CowKeys : handleKeyUp(code)
    \/ \E delta \in CowDeltas : \E r \in CowTicks : CowFrameStep(delta, r)

SpecCow == InitCow /\ [][NextCow]_vars

-----------------------------------------------------------------------------
(* The helpers of utils.ts, each called once on inputs drawn from bounded  *)
(* sets; the game itself stands still in its first state                   *)

\* the column heights the classifier is called with
MaxHeight == 13

\* the coordinates the codec is called with: up to KeyRange units, tens and
\* elevens, either sign
KeyRange == 1

KeyCoords == {c * m : c \in (-KeyRange)..KeyRange, m \in {1, 10, 11}}

\* the second cell of a codec call
KeyRivals == {-1, 1, 11} \X {-1, 1, 11} \X {-1, 1, 11}

InitUtil ==
    /\ selectedBlock = BLOCK_TYPES.GRASS
    /\ isMouseLocked = FALSE
    /\ moveState = [f \in MoveFlags |-> FALSE]
    /\ keysDown = {}
    /\ last = Idle
    /\ world = generateWorld(<<>>).world
    /\ scene = generateWorld(<<>>).scene
    /\ \E spawned \in GameCows : cows = spawned
    /\ camPos = InitialCamera
    /\ mouseX = 0
    /\ mouseY = 0
    /\ elapsed = 0
    /\ lastEdit = NoEdit
    /\ fedClock = [i \in CowIds |-> NeverFed]
    /\ view = FirstView

\* a call of getBlockType(y, terrainHeight), and the inline chain on the same
Classify(y, terrainHeight) ==
    /\ last = Idle
    /\ last' = [op |-> "getBlockType", y |-> y, terrainHeight |-> terrainHeight,
                result |-> getBlockType(y, terrainHeight),
                inline |-> InlineBlockType(y, terrainHeight)]
    /\ UNCHANGED <<world, scene, cows, selectedBlock, isMouseLocked, moveState, keysDown,
                   camPos, mouseX, mouseY, elapsed, lastEdit, fedClock, view>>

\* parseBlockKey(getBlockKey(x, y, z)) for the cell a, and the key of a cell b
EncodeDecode(a, b) ==
    /\ last = Idle
    /\ last' = [op |-> "getBlockKey", cell |-> a, other |-> b,
                key |-> getBlockKey(a[1], a[2], a[3]),
                otherKey |-> getBlockKey(b[1], b[2], b[3]),
                parsed |-> parseBlockKey(getBlockKey(a[1], a[2], a[3]))]
    /\ UNCHANGED <<world, scene, cows, selectedBlock, isMouseLocked, moveState, keysDown,
                   camPos, mouseX, mouseY, elapsed, lastEdit, fedClock, view>>

\* the cells the spawn loop samples
SpawnCells == ((-WorldSize)..WorldSize) \X ((-WorldSize)..WorldSize)

\* sample sequences of the spawn loop: a first sample, a second one, and one
\* cell for all the later rounds
SpawnSamples ==
    {[n \in 1..MaxAttempts |-> IF n = 1 THEN a ELSE IF n = 2 THEN b ELSE c] :
        a \in SpawnCells, b \in {<<0, 0>>, <<WorldSize, 0>>}, c \in SpawnCells}

\* the position search of spawnCows for one cow
Spawn(samples) ==
    /\ last' = [op |-> "spawnCows", samples |-> samples,
                result |-> SpawnSearch(samples, 0)]
    /\ UNCHANGED <<world, scene, cows, selectedBlock, isMouseLocked, moveState, keysDown,
                   camPos, mouseX, mouseY, elapsed, lastEdit, fedClock, view>>

\* JavaScript values as the pages see them: null, undefined, or an object
JsNull == [type |-> "null"]

JsUndefined == [type |-> "undefined"]

Truthy(v) == v.type = "object"

\* data?.claims
OptionalClaims(data) == IF data.type = "object" THEN data.claims ELSE JsUndefined

\* redirect(path) throws: nothing of the page is rendered
Redirect(path) == [redirect |-> path, content |-> {}]

Render(content) == [redirect |-> "", content |-> content]

ProtectedPage(data, error) ==
    IF Truthy(error) \/ ~Truthy(OptionalClaims(data))
    THEN Redirect("/auth/login")
    ELSE Render({"dashboard", "claims"})

\* a Minecraft page that looks at the error only
MinecraftPageErrorOnly(data, error) ==
    IF Truthy(error)
    THEN Redirect("/auth/login")
    ELSE Render({"MinecraftGame"})

MinecraftPage(data, error) ==
    IF Truthy(error) \/ ~Truthy(OptionalClaims(data))
    THEN Redirect("/auth/login")
    ELSE Render({"MinecraftGame"})

\* what supabase.auth.getClaims() may resolve to
ClaimsErrors == {JsNull, [type |-> "object", name |-> "AuthError"]}

ClaimsData ==
    {JsNull}
    \cup {[type |-> "object", claims |-> c] :
             c \in {JsNull, JsUndefined, [type |-> "object", sub |-> "user"]}}

\* a request for one of the two pages
Request(page, data, error) ==
    /\ last' = [op |-> page, data |-> data, error |-> error,
                response |-> IF page = "ProtectedPage" THEN ProtectedPage(data, error)
                             ELSE MinecraftPage(data, error)]
    /\ UNCHANGED <<world, scene, cows, selectedBlock, isMouseLocked, moveState, keysDown,
                   camPos, mouseX, mouseY, elapsed, lastEdit, fedClock, view>>

NextUtil ==
    \/ /\ last = Idle
       /\ \E page \in {"ProtectedPage", "MinecraftPage"} :
             \E data \in ClaimsData : \E error \in ClaimsErrors :
                Request(page, data, error)
    \/ /\ last = Idle
       /\ \E samples \in SpawnSamples : Spawn(samples)
    \/ /\ last = Idle
       /\ \E terrainHeight \in 0..MaxHeight : \E y \in 0..terrainHeight :
             Classify(y, terrainHeight)
    \/ /\ last = Idle
       /\ \E a \in KeyCoords \X KeyCoords \X KeyCoords : \E b \in KeyRivals :
             EncodeDecode(a, b)

SpecUtil == InitUtil /\ [][NextUtil]_vars

-----------------------------------------------------------------------------
(* World generation on its own: every run of the effect generates a world  *)
(* from fresh outcomes of Math.random()                                    *)

\* the columns at which Math.random() < 0.05 may come out true: the middle
\* column and one on the +x edge of the generated square
TreeColumns == {<<0, 0>>, <<WorldSize, 0>>}

\* 4 + Math.floor(Math.random() * 3)
TreeHeights == {4 + f : f \in 0..2}

\* the offsets at which Math.random() < 0.8 may come out true: none, the trunk
\* top only, two offsets on the rim of the canopy, or all
LeafChoices == {{}, {<<0, 0, 0>>}, {<<2, 0, 0>>, <<0, 2, -2>>}, LeafOffsets}

TreeOutcomes == [treeHeight : TreeHeights, leaves : LeafChoices]

GenTrees ==
    UNION {[cols -> TreeOutcomes] : cols \in SUBSET TreeColumns}

\* generateWorld on each of these outcomes, with the outcomes it was run on
GenWorlds ==
    {[trees |-> trees, world |-> generateWorld(trees).world,
      scene |-> generateWorld(trees).scene] : trees \in GenTrees}

\* the first run of the effect
InitGen ==
    /\ selectedBlock = BLOCK_TYPES.GRASS
    /\ isMouseLocked = FALSE
    /\ moveState = [f \in MoveFlags |-> FALSE]
    /\ keysDown = {}
    /\ \E generated \in GenWorlds : \E spawned \in GameCows :
        /\ last = [op |-> "generateWorld", trees |-> generated.trees]
        /\ world = generated.world
        /\ scene = generated.scene
        /\ cows = spawned
    /\ camPos = InitialCamera
    /\ mouseX = 0
    /\ mouseY = 0
    /\ elapsed = 0
    /\ lastEdit = NoEdit
    /\ fedClock = [i \in CowIds |-> NeverFed]
    /\ view = FirstView

\* a pointerlockchange that changes isMouseLocked: the effect runs again
Regenerate(locked, generated, spawned) ==
    /\ locked # isMouseLocked
    /\ isMouseLocked' = locked
    /\ RunEffect(generated, spawned)
    /\ last' = [op |-> "generateWorld", trees |-> generated.trees]
    /\ UNCHANGED <<selectedBlock, moveState, keysDown>>

NextGen ==
    \E locked \in BOOLEAN : \E generated \in GenWorlds : \E spawned \in GameCows :
        Regenerate(locked, generated, spawned)

SpecGen == InitGen /\ [][NextGen]_vars

-----------------------------------------------------------------------------
(* Wandering: cows some way into a session, ticked by frames with the      *)
(* pointer not locked                                                      *)

\* Math.random() in eighths: u stands for u / 8 in [0, 1)
RandomScale == 2 * 4

\* 3 + Math.random() * 4
WanderTime(u) == 3 * Second + (4 * Second * u) \div RandomScale

\* 0.5 + Math.random() * 0.5
WanderSpeed(u) == SpeedScale \div 2 + (SpeedScale * u) \div (2 * RandomScale)

\* direction.set((Math.random() - 0.5) * 2, 0, (Math.random() - 0.5) * 2).normalize()
WanderHeading(u, v) ==
    Normalize(VecScale(<<2 * u - RandomScale, 0, 2 * v - RandomScale>>, DirScale))

\* the Math.random() outcomes of one Cow.update: speed, interval, heading
WanderOutcomes ==
    {[speed |-> WanderSpeed(0), maxWanderTime |-> WanderTime(d[1]),
      direction |-> WanderHeading(d[2], d[3])] :
        d \in {<<0, 0, 0>>, <<4, 7, 4>>, <<7, 4, 0>>}}

WanderTicks == [CowIds -> WanderOutcomes]

WanderDeltas == {Second, 2 * Second}

\* where a wandering cow may stand: mid world, one block off the buffer, on
\* the buffer line on either side of x and of z
WanderCells == {<<0, 0>>, <<16, 0>>, <<17, 0>>, <<-17, 0>>, <<0, 17>>, <<0, -17>>}

\* wandering cows with their timers part way: heading +x, interval 3 s or 5 s
WanderCows ==
    {[NewCow(c[1], FloorNoise(0, 0) + 6, c[2],
             [direction |-> <<DirScale, 0, 0>>, speed |-> WanderSpeed(0),
              maxWanderTime |-> WanderTime(u)])
         EXCEPT !.wanderTimer = t * Second] :
        c \in WanderCells, u \in {0, 4}, t \in 0..2}

InitWander ==
    /\ selectedBlock = BLOCK_TYPES.GRASS
    /\ isMouseLocked = FALSE
    /\ moveState = [f \in MoveFlags |-> FALSE]
    /\ keysDown = {}
    /\ last = Idle
    /\ world = generateWorld(<<>>).world
    /\ scene = generateWorld(<<>>).scene
    /\ \E cow \in WanderCows : cows = [i \in CowIds |-> cow]
    /\ camPos = InitialCamera
    /\ mouseX = 0
    /\ mouseY = 0
    /\ elapsed = 0
    /\ lastEdit = NoEdit
    /\ fedClock = [i \in CowIds |-> NeverFed]
    /\ view = FirstView

WanderFrame(delta, r) ==
    /\ elapsed + delta <= MaxElapsed * Second
    /\ animate(delta, r)

NextWander == \E delta \in WanderDeltas : \E r \in WanderTicks : WanderFrame(delta, r)

SpecWander == InitWander /\ [][NextWander]_vars

-----------------------------------------------------------------------------
(* The end of a follow window: the cows of a running session, fed by right *)
(* clicks and ticked by frames whose random outcomes are drawn             *)

\* the Math.random() outcomes of one Cow.update, each with an interval of its
\* own: heading (-0.707, 0, -0.707) with 3 s, the zero vector that two draws
\* of 0.5 normalize to with 5 s, heading (1, 0, 0) with 6.5 s
RevertOutcomes ==
    {[speed |-> WanderSpeed(0), maxWanderTime |-> WanderTime(d[1]),
      direction |-> WanderHeading(d[2], d[3])] :
        d \in {<<0, 0, 0>>, <<4, 4, 4>>, <<7, 7, 4>>}}

RevertTicks == [CowIds -> RevertOutcomes]

NextRevert ==
    \/ handleClick(2)
    \/ \E delta \in CowDeltas : \E r \in RevertTicks : CowFrameStep(delta, r)

SpecRevert == InitCow /\ [][NextRevert]_vars

-----------------------------------------------------------------------------
(* The viewer's orientation: look events of any size between runs of the   *)
(* effect                                                                  *)

\* the largest look delta of one event, in quarter turns
LookRange == 3

LookDeltas == ((-LookRange)..LookRange) \X ((-LookRange)..LookRange)

NextLook ==
    \/ \E m \in LookDeltas : handleMouseMove(m[1], m[2])
    \/ \E locked \in BOOLEAN : \E generated \in GameWorlds : \E spawned \in GameCows :
        handlePointerLockChange(locked, generated, spawned)
    \/ \E blockType \in SelectableBlocks : \E generated \in GameWorlds :
        \E spawned \in GameCows : setSelectedBlock(blockType, generated, spawned)

SpecLook == Init /\ [][NextLook]_vars

-----------------------------------------------------------------------------
(* Movement: key events between the frames                                 *)

\* the keys the model presses and releases: forward and backward, right, down,
\* and one key the switch does not know
MoveKeys == {"KeyW", "KeyS", "KeyD", "ShiftLeft", "KeyQ"}

\* quarter turns of yaw and of pitch
MoveLooks == {<<1, 0>>, <<0, 1>>}

\* the middle button: a click that casts its rays and edits nothing
MoveButtons == {1}

NextMove ==
    \/ \E button \in MoveButtons : handleClick(button)
    \/ \E code \in MoveKeys : handleKeyDown(code)
    \/ \E code \in MoveKeys : handleKeyUp(code)
    \/ \E m \in MoveLooks : handleMouseMove(m[1], m[2])
    \/ \E locked \in BOOLEAN : \E generated \in GameWorlds : \E spawned \in GameCows :
        handlePointerLockChange(locked, generated, spawned)
    \/ \E delta \in GameDeltas : \E r \in GameTicks : GameFrame(delta, r)

SpecMove == Init /\ [][NextMove]_vars

-----------------------------------------------------------------------------
(* Claims about targeting and the world store, checked under Spec          *)

\* a click that ran its ray casts while the pointer was locked
ClickRan(l) == l.op = "click" /\ l.outcome # "unlocked"

\* a click whose block ray cast met a block
ClickHitBlock(l) == ClickRan(l) /\ l.hit.distance >= 0

\* C1: targeting adjacency.  When the nearest hit of the view ray is an interior
\* point of a face of the cube at cell c whose outward normal is n, the target
\* is place = c + n and remove = c.
C1_TargetingAdjacency ==
    ClickHitBlock(last) =>
        /\ TargetOf(last.hit).place = VecAdd(last.hit.object.pos, last.hit.normal)
        /\ TargetOf(last.hit).remove = last.hit.object.pos

\* C2: a left click under pointer lock whose ray first meets block B deletes
\* exactly the entry of B from the world and takes its mesh out of the scene.
C2_LeftClickRemovesStruckBlock ==
    [][(ClickHitBlock(last') /\ last'.button = 0) =>
          /\ world' = [k \in (DOMAIN world) \ {KeyOf(last'.hit.object.pos)} |-> world[k]]
          /\ scene' = scene (-) SetToBag({last'.hit.object})]_vars

\* C3: after generation the world store changes only in a step that places or
\* removes a block.
C3_StoreChangedOnlyByEdits ==
    [][world' # world =>
          /\ last'.op = "click"
          /\ last'.outcome \in {"placed", "removed"}]_vars

\* C6: a right click whose ray first meets a cow that is already fed changes
\* neither that cow nor anything else: the cows, the world and the scene stay.
C6_FeedOnFedCowIsNoOp ==
    [][(ClickRan(last') /\ last'.button = 2 /\ last'.cow # 0 /\ cows[last'.cow].isFed) =>
          /\ cows' = cows
          /\ world' = world
          /\ scene' = scene]_vars

\* the click of this step is a place action: a right click that meets a block
\* and does not feed a cow
PlaceAction(l) == ClickHitBlock(l) /\ l.button = 2 /\ l.outcome # "fed"

\* the click of this step is a remove action: a left click that meets a block
RemoveAction(l) == ClickHitBlock(l) /\ l.button = 0

\* C7: a place action whose place cell is occupied and a remove action whose
\* remove cell is absent leave the world store and the scene unchanged.
C7_NoOpEdits ==
    [][/\ (PlaceAction(last') /\ KeyOf(TargetOf(last'.hit).place) \in DOMAIN world)
            => (world' = world /\ scene' = scene)
       /\ (RemoveAction(last') /\ KeyOf(TargetOf(last'.hit).remove) \notin DOMAIN world)
            => (world' = world /\ scene' = scene)]_vars

C7_Witness_PlaceOccupied ==
    /\ PlaceAction(last)
    /\ last.outcome = "placeOccupied"
    /\ KeyOf(TargetOf(last.hit).place) \in DOMAIN world

C7_Witness_RemoveAbsent ==
    /\ RemoveAction(last)
    /\ last.outcome = "removeAbsent"
    /\ KeyOf(TargetOf(last.hit).remove) \notin DOMAIN world

\* C8: placing a block at an empty cell and then removing that cell, with no
\* edit in between, gives back the world store (and the scene) as before the
\* placement.
C8_PlaceRemoveRoundTrip ==
    lastEdit.kind = "roundtrip" =>
        /\ world = lastEdit.world
        /\ scene = lastEdit.scene
        /\ lastEdit.key \notin DOMAIN world

C8_Witness ==
    /\ lastEdit.kind = "roundtrip"
    /\ last.op = "click"
    /\ last.outcome = "removed"

-----------------------------------------------------------------------------
(* Claims about the cows, checked under SpecCow                            *)

\* the squared distance between two points
DistSq(a, b) == LengthSq(VecSub(a, b))

\* this step is a frame of animate in which cow i is Following before and after
FollowFrame(i) ==
    /\ last'.op = "animate"
    /\ cows[i].isFed
    /\ cows'[i].isFed

\* the camera, which every frame copies into the follow target, stays put
TargetStays == camPos' = camPos

InsideClamp(v) == (WorldMin + 2) * Unit <= v /\ v <= (WorldMax - 2) * Unit

\* C4: in every reachable state the x and z of every cow lie in
\* [worldMin + 2, worldMax - 2] = [-18, 18].
C4_BoundsContainment ==
    \A i \in DOMAIN cows :
        /\ InsideClamp(cows[i].position[1])
        /\ InsideClamp(cows[i].position[3])

\* a Following cow one block inside the bound has just been stopped at x = 18
\* by the clamp
C4_Witness ==
    /\ last.op = "animate"
    /\ \E i \in DOMAIN cows :
        /\ last.cows[i].isFed
        /\ cows[i].isFed
        /\ last.cows[i].position[1] = 17 * Unit
        /\ cows[i].position[1] = (WorldMax - 2) * Unit
        /\ camPos[1] > (WorldMax - 2) * Unit

\* C5: a feed makes a Wandering cow Following and happy; once 10 seconds of
\* frames (in any split) have passed since the feed, with the target put and
\* within 2 blocks all the while, the cow is Wandering again, not happy, with
\* no follow target and a fed timer of 0.
C5_FeedTimeout ==
    \A i \in DOMAIN cows :
        /\ fedClock[i].time = 0 =>
              (cows[i].isFed /\ cows[i].happy /\ cows[i].followTarget # Null)
        /\ (fedClock[i].time >= cows[i].maxFedTime /\ fedClock[i].held) =>
              /\ ~cows[i].isFed
              /\ ~cows[i].happy
              /\ cows[i].followTarget = Null
              /\ cows[i].fedTimer = 0

\* the frame that completes the 10 seconds has just reverted a cow whose
\* target stayed put within 2 blocks
C5_Witness ==
    /\ last.op = "animate"
    /\ \E i \in DOMAIN cows :
        /\ last.cows[i].isFed
        /\ last.cows[i].fedTimer + last.delta = cows[i].maxFedTime
        /\ fedClock[i].time = MaxFedTime * Second
        /\ fedClock[i].held
        /\ ~cows[i].isFed

\* C9 as stated: a frame in which a cow follows a target that stays put at
\* distance 10 strictly decreases the distance of the cow to the target.
C9_FollowApproach ==
    [][\A i \in DOMAIN cows :
          (/\ FollowFrame(i)
           /\ TargetStays
           /\ DistSq(camPos, cows[i].position) = (10 * Unit) * (10 * Unit))
          => DistSq(camPos, cows'[i].position) < DistSq(camPos, cows[i].position)]_vars

\* C9 amended: such a frame never increases the distance, and strictly
\* decreases it when the x and z of the target lie in [-18, 18], where the
\* clamp cannot hold the cow back.
C9_FollowApproachInsideBounds ==
    [][\A i \in DOMAIN cows :
          (/\ FollowFrame(i)
           /\ TargetStays
           /\ DistSq(camPos, cows[i].position) = (10 * Unit) * (10 * Unit))
          => /\ DistSq(camPos, cows'[i].position) <= DistSq(camPos, cows[i].position)
             /\ (InsideClamp(camPos[1]) /\ InsideClamp(camPos[3]))
                  => DistSq(camPos, cows'[i].position) < DistSq(camPos, cows[i].position)]_vars

\* a cow has just followed, at speed 1.5, a target inside the bounds that was
\* 10 blocks away, and is nearer to it now
C9_Witness ==
    /\ last.op = "animate"
    /\ last.camPos = camPos
    /\ InsideClamp(camPos[1])
    /\ InsideClamp(camPos[3])
    /\ \E i \in DOMAIN cows :
        /\ last.cows[i].isFed
        /\ cows[i].isFed
        /\ cows[i].speed = (3 * SpeedScale) \div 2
        /\ DistSq(camPos, last.cows[i].position) = (10 * Unit) * (10 * Unit)
        /\ DistSq(camPos, cows[i].position) < (10 * Unit) * (10 * Unit)

\* C10: in a frame that leaves a cow Following, with the target put and at
\* most 2 blocks away, the update zeroes the heading and leaves the position
\* as it is (so the distance stays at most 2 on every later such frame); the
\* cow leaves Following in such a frame only when its fed timer runs out.
C10_FollowHold ==
    [][\A i \in DOMAIN cows :
          (/\ last'.op = "animate"
           /\ cows[i].isFed
           /\ TargetStays
           /\ Within2(camPos, cows[i].position))
          => /\ cows'[i].isFed <=> (cows[i].fedTimer + last'.delta < cows[i].maxFedTime)
             /\ cows'[i].isFed =>
                  /\ cows'[i].direction = <<0, 0, 0>>
                  /\ cows'[i].position = cows[i].position
                  /\ Within2(camPos', cows'[i].position)]_vars

\* a cow that was heading somewhere has just been held, Following, by a
\* target that stays put within 2 blocks
C10_Witness ==
    /\ last.op = "animate"
    /\ last.camPos = camPos
    /\ \E i \in DOMAIN cows :
        /\ last.cows[i].isFed
        /\ last.cows[i].direction # <<0, 0, 0>>
        /\ Within2(camPos, last.cows[i].position)
        /\ cows[i].isFed
        /\ cows[i].direction = <<0, 0, 0>>

-----------------------------------------------------------------------------
(* Claims about the targeting formula, classification, the key codec and   *)
(* world generation                                                        *)

\* Math.round of each component of a point
RoundVec(p) == <<MathRound(p[1]), MathRound(p[2]), MathRound(p[3])>>

\* C11: on a hit with intersection point p and unit face normal n the target is
\* place = round(p + 0.5 n) and remove = round(p - n).
C11_TargetingFormula ==
    ClickHitBlock(last) =>
        /\ TargetOf(last.hit).place =
              RoundVec(VecAdd(last.hit.point, VecScale(last.hit.normal, HalfUnit)))
        /\ TargetOf(last.hit).remove =
              RoundVec(VecSub(last.hit.point, VecScale(last.hit.normal, Unit)))

\* C12: for every height h and every y in 0..h the classifier gives Grass iff
\* y = h, Dirt iff h - 3 <= y < h, Stone iff y < h - 3, and the chain inside
\* generateWorld gives the same type.
C12_BlockClassification ==
    last.op = "getBlockType" =>
        /\ (last.result = BLOCK_TYPES.GRASS) <=> (last.y = last.terrainHeight)
        /\ (last.result = BLOCK_TYPES.DIRT) <=>
              (last.terrainHeight - 3 <= last.y /\ last.y < last.terrainHeight)
        /\ (last.result = BLOCK_TYPES.STONE) <=> (last.y < last.terrainHeight - 3)
        /\ last.inline = last.result

\* the lowest dirt block of a column of height 5
C12_Witness ==
    /\ last.op = "getBlockType"
    /\ last.terrainHeight = 5
    /\ last.y = 2
    /\ last.result = BLOCK_TYPES.DIRT
    /\ last.inline = BLOCK_TYPES.DIRT

\* C13: parseBlockKey(getBlockKey(x, y, z)) = (x, y, z) for every cell, also
\* with negative and zero components, and two different cells never get the
\* same key.
C13_KeyRoundTrip ==
    last.op = "getBlockKey" =>
        /\ last.parsed = last.cell
        /\ (last.key = last.otherKey) => (last.cell = last.other)

\* a cell with a negative, a zero and a two-digit component came back from its
\* key, which differs from the key of another cell
C13_Witness ==
    /\ last.op = "getBlockKey"
    /\ last.cell = <<-11, 0, 10>>
    /\ last.key = <<"-", "1", "1", ",", "0", ",", "1", "0">>
    /\ last.parsed = <<-11, 0, 10>>
    /\ last.other = <<11, 1, -1>>
    /\ last.key # last.otherKey

\* the columns on which the latest generation put a tree
TreesGenerated ==
    {c \in DOMAIN last.trees : HasTree(c[1], c[2], last.trees)}

\* C14: a tree stands only on a column of height h > 3, and after generation
\* the world holds a Wood block at (x, y, z) for every y from h + 1 to
\* h + trunkHeight, trunkHeight in {4, 5, 6}.
C14_TreeTrunk ==
    last.op = "generateWorld" =>
        \A c \in TreesGenerated :
            LET h == getTerrainHeight(c[1], c[2])
                trunkHeight == last.trees[c].treeHeight
            IN  /\ h > 3
                /\ trunkHeight \in {4, 5, 6}
                /\ \A y \in (h + 1)..(h + trunkHeight) :
                      /\ getBlockKey(c[1], y, c[2]) \in DOMAIN world
                      /\ world[getBlockKey(c[1], y, c[2])].type = BLOCK_TYPES.WOOD

\* C15: right after generation every block of the world has x and z in
\* [-size, size], the square of columns the loops visit (size = 20: 41 x 41).
C15_WorldSize ==
    last.op = "generateWorld" =>
        \A k \in DOMAIN world :
            /\ Abs(world[k].pos[1]) <= WorldSize
            /\ Abs(world[k].pos[3]) <= WorldSize

-----------------------------------------------------------------------------
(* Claims about teardown and the frame loop                                *)

\* the positions of the calls of the latest cleanup that release something
\* the renderer holds, and of those that unsubscribe a listener
ReleaseCalls ==
    {i \in DOMAIN view.cleanup :
        view.cleanup[i].op \in {"scene.remove", "removeChild", "renderer.dispose"}}

UnsubscribeCalls ==
    {i \in DOMAIN view.cleanup : view.cleanup[i].op = "removeEventListener"}

\* C16: on teardown the renderable of every entity and of every block is
\* released, and every release comes before any listener is unsubscribed.
C16_TeardownOrdering ==
    view.cleanup # <<>> =>
        /\ \A i \in ReleaseCalls : \A j \in UnsubscribeCalls : i < j
        /\ \A c \in CowIds :
              \E i \in ReleaseCalls : view.cleanup[i].arg = <<"cow", c>>
        /\ \E i \in ReleaseCalls :
              /\ view.cleanup[i].op = "scene.remove"
              /\ view.cleanup[i].arg[1] = "block"

\* C17: after a teardown the frame callback of the torn-down run executes no
\* further tick, and at most one frame loop is active at any time.
C17_FrameLoopStops ==
    /\ view.loops <= 1
    /\ last.op # "staleAnimate"

-----------------------------------------------------------------------------
(* Claims about the viewer's orientation                                   *)

\* C20: after any look events the pitch lies within [-pi/2, pi/2] (one quarter
\* turn either way); an event whose delta would carry the pitch past a bound
\* leaves it exactly at that bound, and the yaw takes the whole delta.
C20_PitchClamp ==
    /\ -1 <= mouseY
    /\ mouseY <= 1
    /\ (last.op = "handleMouseMove" /\ isMouseLocked) =>
          /\ (last.mouseY - last.movementY > 1) => (mouseY = 1)
          /\ (last.mouseY - last.movementY < -1) => (mouseY = -1)
          /\ (Abs(last.mouseY - last.movementY) <= 1) =>
                (mouseY = last.mouseY - last.movementY)
          /\ mouseX = last.mouseX - last.movementX

\* a look of three quarter turns up from the upper bound, with the yaw already
\* half a turn round: the pitch stays at the bound, the yaw is past it
C20_Witness ==
    /\ last.op = "handleMouseMove"
    /\ isMouseLocked
    /\ last.mouseY = 1
    /\ last.movementY = -3
    /\ mouseY = 1
    /\ last.mouseX = 1
    /\ last.movementX = -1
    /\ mouseX = 2

-----------------------------------------------------------------------------
(* Claims about who changes the world store and the cows                   *)

\* C19: the entries of the world store and the state of the cows change only
\* in a frame tick (or when a run of the effect builds them anew); the key,
\* mouse-move and click callbacks never change them.
C19_ExclusiveOwnership ==
    [][(world' # world \/ cows' # cows) =>
          (last'.op = "animate" \/ view' # view)]_vars

-----------------------------------------------------------------------------
(* Claims about the key events and the frames, checked under SpecMove      *)

\* the viewer position a frame of length delta gives with the flags `flags'
FrameMove(flags, delta) == MoveCamera(camPos, flags, mouseX, mouseY, delta)

\* C18: a frame under lock moves the viewer by the flags that the key events
\* before it leave: the displacement is that of exactly the directions whose
\* latest event is a key-down; taking any of these away would change it, and
\* a direction whose latest event is a key-up (or that had none) has no part
\* in it.
C18_InputOrdering ==
    [][(last'.op = "animate" /\ isMouseLocked) =>
          LET intent == [f \in MoveFlags |-> f \in keysDown]
          IN  /\ camPos' = FrameMove(intent, last'.delta)
              /\ \A f \in keysDown :
                    FrameMove([moveState EXCEPT ![f] = FALSE], last'.delta) # camPos'
              /\ \A f \in MoveFlags \ keysDown :
                    FrameMove([moveState EXCEPT ![f] = FALSE], last'.delta) = camPos']_vars

\* forward and down are held, backward and right are not (any key-down of
\* theirs was followed by a key-up): the frame of one second took the viewer
\* ahead and down along the diagonal, and not sideways
C18_Witness ==
    /\ last.op = "animate"
    /\ isMouseLocked
    /\ keysDown = {"forward", "down"}
    /\ mouseX = 0
    /\ mouseY = 0
    /\ last.camPos = InitialCamera
    /\ camPos[1] = InitialCamera[1]
    /\ camPos[2] < InitialCamera[2]
    /\ camPos[3] < InitialCamera[3]

-----------------------------------------------------------------------------
(* Claims about the life of the cows                                       *)

\* C21: the cows spawned with the world stay the same cows through every
\* event and tick: no step changes how many there are, and a lock-state or
\* block-selection event (a step that starts a new run of the effect) leaves
\* every cow's position and fed state as they were.
C21_EntityLifecycle ==
    [][/\ DOMAIN cows' = DOMAIN cows
       /\ (view' # view) =>
             \A i \in DOMAIN cows :
                /\ cows'[i].position = cows[i].position
                /\ cows'[i].isFed = cows[i].isFed]_vars

-----------------------------------------------------------------------------
(* Claims about the spawn search                                           *)

\* a sampled position stands on the ground: one block above the top of its column
OnGround(x, y, z) == y = getTerrainHeight(x, z) + 1

\* the rounds of a sample sequence whose sample stands on the ground
ValidRounds(samples) ==
    {n \in DOMAIN samples :
        OnGround(samples[n][1], FloorNoise(samples[n][1], samples[n][2]) + 6,
                 samples[n][2])}

\* the least number of a non-empty set of numbers
Least(S) == CHOOSE n \in S : \A m \in S : n <= m

\* C22: the spawn search takes the first sample that stands on the ground and
\* stops there; it draws at most 50 samples, and when none of them stands on
\* the ground it takes the last one.
C22_SpawnPlacement ==
    last.op = "spawnCows" =>
        LET valid == ValidRounds(last.samples)
            taken == IF valid # {} THEN Least(valid) ELSE MaxAttempts
        IN  /\ last.result.attempts <= MaxAttempts
            /\ last.result.attempts = taken
            /\ last.result.x = last.samples[taken][1]
            /\ last.result.z = last.samples[taken][2]

-----------------------------------------------------------------------------
(* Claims about the generated terrain, checked under SpecGen               *)

TerrainTypes == {BLOCK_TYPES.GRASS, BLOCK_TYPES.DIRT, BLOCK_TYPES.STONE}

\* the terrain blocks of a world store, as cell and type
TerrainOf(w) == {w[k] : k \in {j \in DOMAIN w : w[j].type \in TerrainTypes}}

\* C23: any two generations give the same terrain (Grass, Dirt, Stone) blocks
\* at the same cells, whatever their trees: a new generation leaves the set of
\* terrain blocks as the one before had it.
C23_TerrainDeterminism ==
    [][last'.op = "generateWorld" => TerrainOf(world') = TerrainOf(world)]_vars

\* a second generation that, unlike the first one, grew a tree on the middle
\* column with a leaf on the trunk top
C23_Witness ==
    /\ last.op = "generateWorld"
    /\ view.loops = 2
    /\ <<0, 0>> \in DOMAIN last.trees
    /\ last.trees[<<0, 0>>].leaves = {<<0, 0, 0>>}
    /\ \E k \in DOMAIN world : world[k].type = BLOCK_TYPES.LEAVES

-----------------------------------------------------------------------------
(* Claims about the pages                                                  *)

\* the claims lookup of the latest request gave no error and a claims object
Authenticated(l) ==
    /\ l.error = JsNull
    /\ l.data.type = "object"
    /\ l.data.claims.type = "object"

\* C24: the dashboard and the Minecraft page render their content (the game
\* component included) only when the claims lookup gives no error and a claims
\* object; in every other case the response is a redirect to /auth/login and
\* nothing is rendered.
C24_AuthenticationGate ==
    last.op \in {"ProtectedPage", "MinecraftPage"} =>
        IF Authenticated(last)
        THEN /\ last.response.redirect = ""
             /\ last.response.content # {}
             /\ (last.op = "MinecraftPage") <=> ("MinecraftGame" \in last.response.content)
        ELSE /\ last.response.redirect = "/auth/login"
             /\ last.response.content = {}

\* a request for the Minecraft page without a session: no error, no data
C24_Witness ==
    /\ last.op = "MinecraftPage"
    /\ last.error = JsNull
    /\ last.data = JsNull
    /\ last.response.redirect = "/auth/login"
    /\ "MinecraftGame" \notin last.response.content

-----------------------------------------------------------------------------
(* Claims about feeding and placing, checked under Spec                    *)

\* C25: a right click under lock whose ray meets a cow that is not fed feeds
\* that cow (fed, follow target = the viewer position at the click, fed timer
\* 0), changes no other cow and leaves the world store and the scene as they
\* were, also when the ray meets a block whose place cell is empty.
C25_FeedPriority ==
    [][(/\ ClickRan(last')
        /\ last'.button = 2
        /\ last'.cow # 0
        /\ ~cows[last'.cow].isFed) =>
          /\ cows'[last'.cow].isFed
          /\ cows'[last'.cow].followTarget = camPos
          /\ cows'[last'.cow].fedTimer = 0
          /\ \A i \in DOMAIN cows : i # last'.cow => cows'[i] = cows[i]
          /\ world' = world
          /\ scene' = scene]_vars

\* a right click fed the cow on the ray although the block behind it offered an
\* empty place cell
C25_Witness ==
    /\ ClickRan(last)
    /\ last.button = 2
    /\ last.outcome = "fed"
    /\ cows[last.cow].isFed
    /\ cows[last.cow].followTarget = camPos
    /\ last.hit.distance >= 0
    /\ ~HasBlock(world, KeyOf(TargetOf(last.hit).place))


\* C26: a placement that succeeds puts at the place cell a block of the type
\* selected at the time of the click, the latest choice made in the selector
\* (Grass when none was made).
C26_PlacesSelectedType ==
    [][(ClickRan(last') /\ last'.outcome = "placed") =>
          /\ KeyOf(last'.target.place) \in DOMAIN world'
          /\ world'[KeyOf(last'.target.place)] =
                Mesh(last'.target.place[1], last'.target.place[2],
                     last'.target.place[3], selectedBlock)]_vars

\* Stone was chosen in the selector after the default Grass, and the block the
\* next right click placed is Stone
C26_Witness ==
    /\ ClickRan(last)
    /\ last.outcome = "placed"
    /\ selectedBlock = BLOCK_TYPES.STONE
    /\ world[KeyOf(last.target.place)].type = BLOCK_TYPES.STONE

-----------------------------------------------------------------------------
(* Claims about wandering, checked under SpecWander                        *)

\* x or z of the position p is within 3 blocks of a world bound
NearBound(p) ==
    \/ p[1] <= (WorldMin + 3) * Unit
    \/ p[1] >= (WorldMax - 3) * Unit
    \/ p[3] <= (WorldMin + 3) * Unit
    \/ p[3] >= (WorldMax - 3) * Unit

\* C27: in a tick of a wandering cow the heading and the wander interval are
\* chosen anew (heading horizontal, interval in [3, 7) seconds) and the wander
\* timer is reset to 0 exactly when the timer has reached the interval or the
\* cow is within 3 blocks of a world bound; in every other tick of a wandering
\* cow heading and interval stay and the timer runs on.
C27_WanderRepick ==
    [][last'.op = "animate" =>
          \A i \in DOMAIN cows :
             ~cows[i].isFed =>
                IF \/ cows[i].wanderTimer + last'.delta >= cows[i].maxWanderTime
                   \/ NearBound(cows[i].position)
                THEN /\ cows'[i].wanderTimer = 0
                     /\ cows'[i].maxWanderTime >= 3 * Second
                     /\ cows'[i].maxWanderTime < 7 * Second
                     /\ cows'[i].direction[2] = 0
                ELSE /\ cows'[i].wanderTimer = cows[i].wanderTimer + last'.delta
                     /\ cows'[i].maxWanderTime = cows[i].maxWanderTime
                     /\ cows'[i].direction = cows[i].direction]_vars

\* a cow on the buffer line (x = 17), its timer short of the interval, got a
\* new heading and a new interval of 6.5 s
C27_Witness ==
    /\ last.op = "animate"
    /\ last.cows[1].position[1] = 17 * Unit
    /\ last.cows[1].wanderTimer + last.delta < last.cows[1].maxWanderTime
    /\ cows[1].wanderTimer = 0
    /\ cows[1].maxWanderTime = WanderTime(7)
    /\ cows[1].direction # last.cows[1].direction


\* the columns of the generated square
Columns == {ColumnAt(i) : i \in 0..(ColumnCount - 1)}

\* C28: right after generation every column (x, z) of the region holds, for
\* every y from 0 to its height h, exactly the block getBlockType(y, h) at
\* (x, y, z): no gap from y = 0 up to the Grass block at y = h.
C28_ColumnGeneration ==
    last.op = "generateWorld" =>
        \A c \in Columns :
            LET h == getTerrainHeight(c[1], c[2])
            IN  /\ \A y \in 0..h :
                      /\ getBlockKey(c[1], y, c[2]) \in DOMAIN world
                      /\ world[getBlockKey(c[1], y, c[2])] =
                            Mesh(c[1], y, c[2], getBlockType(y, h))
                /\ world[getBlockKey(c[1], h, c[2])].type = BLOCK_TYPES.GRASS

\* a generation with a tree on the middle column: Stone at the bottom, Grass
\* at the height, the trunk right above it
C28_Witness ==
    /\ last.op = "generateWorld"
    /\ HasTree(0, 0, last.trees)
    /\ world[getBlockKey(0, 0, 0)].type = BLOCK_TYPES.STONE
    /\ world[getBlockKey(0, getTerrainHeight(0, 0), 0)].type = BLOCK_TYPES.GRASS
    /\ world[getBlockKey(0, getTerrainHeight(0, 0) + 1, 0)].type = BLOCK_TYPES.WOOD


\* C29: every Leaves block of a tree on column (x, z) lies at an offset with
\* |dx| + |dz| <= 2 and above the trunk top (column height + trunk height), so
\* none lies on a cell of the tree's trunk and the blocks of one tree have
\* pairwise distinct cells.
C29_LeafCanopy ==
    last.op = "generateWorld" =>
        \A c \in TreesGenerated :
            LET trunk == TrunkMeshes(c[1], c[2], last.trees[c])
                leaves == LeafMeshes(c[1], c[2], last.trees[c])
                top == getTerrainHeight(c[1], c[2]) + last.trees[c].treeHeight
            IN  /\ \A m \in leaves :
                      /\ Abs(m.pos[1] - c[1]) + Abs(m.pos[3] - c[2]) <= 2
                      /\ m.pos[2] > top
                /\ \A m \in leaves : \A t \in trunk : m.pos # t.pos
                /\ Cardinality({m.pos : m \in trunk \cup leaves}) =
                      Cardinality(trunk) + Cardinality(leaves)

-----------------------------------------------------------------------------
(* Claims about targeting from anywhere, checked under SpecMove            *)

\* C30: whenever targeting returns a result its place cell is empty in the
\* world store, wherever the viewer is and looks, inside an occupied cell
\* included.
C30_PlaceCellEmpty ==
    ClickHitBlock(last) => ~HasBlock(world, KeyOf(TargetOf(last.hit).place))

-----------------------------------------------------------------------------
(* Claims about the game without the pointer lock, checked under Spec      *)

\* C31: while the pointer is not locked, mouse-move, key and click events and
\* frames leave the viewer position, yaw and pitch, the world store and the
\* fed state of every cow as they are; key events change the movement flags
\* only.
C31_InactiveWithoutLock ==
    [][(~isMouseLocked /\ ~isMouseLocked') =>
          /\ camPos' = camPos
          /\ mouseX' = mouseX
          /\ mouseY' = mouseY
          /\ world' = world
          /\ DOMAIN cows' = DOMAIN cows
          /\ \A i \in DOMAIN cows : cows'[i].isFed = cows[i].isFed
          /\ (moveState' # moveState) =>
                (cows' = cows /\ scene' = scene /\ selectedBlock' = selectedBlock)]_vars

\* a frame without the lock, W held: the cow went on, the viewer stayed
C31_Witness ==
    /\ ~isMouseLocked
    /\ last.op = "animate"
    /\ moveState.forward
    /\ camPos = last.camPos
    /\ cows[1].position # last.cows[1].position

-----------------------------------------------------------------------------
(* Claims about the scene and the world store, checked under Spec          *)

\* C32: the block meshes in the scene are exactly the meshes the world store
\* holds, each of them once: no block mesh is in the scene without being the
\* entry of the store for its cell.
C32_SceneMatchesStore == scene = SetToBag(WorldMeshes(world))

-----------------------------------------------------------------------------
(* Claims about the fed state of a cow, checked under SpecCow              *)

\* C33: in every state of a cow, after any feeds and frames, isFed is true
\* exactly when a follow target is present, and fedTimer is 0 whenever the
\* cow is not fed.
C33_FedStateWellFormed ==
    \A i \in DOMAIN cows :
        /\ cows[i].isFed <=> (cows[i].followTarget # Null)
        /\ ~cows[i].isFed => cows[i].fedTimer = 0

\* a frame has just reverted a cow that was fed, had a target and a running
\* fed timer
C33_Witness ==
    /\ last.op = "animate"
    /\ \E i \in DOMAIN cows :
        /\ last.cows[i].isFed
        /\ last.cows[i].followTarget # Null
        /\ last.cows[i].fedTimer > 0
        /\ ~cows[i].isFed
        /\ cows[i].followTarget = Null


\* C34: the follow window is bounded and cannot be extended.  While less than
\* maxFedTime (10 s) of frames has passed since the feed that made a cow
\* Following, the cow is Following and its fed timer is that time; on the
\* first frame at which the time reaches 10 s the cow is Wandering again.  A
\* right click that meets the cow while it is Following leaves its fed timer
\* and its fed flag as they are.
C34_FollowWindowFixed ==
    [][\A i \in DOMAIN cows' :
          /\ (fedClock'[i].time >= 0 /\ fedClock'[i].time < cows'[i].maxFedTime) =>
                (cows'[i].isFed /\ cows'[i].fedTimer = fedClock'[i].time)
          /\ fedClock'[i].time >= cows'[i].maxFedTime => ~cows'[i].isFed
          /\ (last'.op = "click" /\ isMouseLocked /\ last'.button = 2
                /\ last'.cow = i /\ cows[i].isFed) =>
                (cows'[i].isFed /\ cows'[i].fedTimer = cows[i].fedTimer)]_vars

\* a frame has just reverted a cow at exactly 10 s after its feed, although
\* a right click met the cow while it was Following
C34_Witness ==
    /\ last.op = "animate"
    /\ \E i \in DOMAIN cows :
        /\ last.cows[i].isFed
        /\ last.cows[i].fedTimer < cows[i].maxFedTime
        /\ last.cows[i].fedTimer + last.delta >= cows[i].maxFedTime
        /\ fedClock[i].refed
        /\ fedClock[i].time = cows[i].maxFedTime
        /\ ~cows[i].isFed

-----------------------------------------------------------------------------
(* Claims about the end of a follow window, checked under SpecRevert       *)

\* a frame of this step takes the cow i from Following back to Wandering
Reverts(i) == last'.op = "animate" /\ cows[i].isFed /\ ~cows'[i].isFed

\* the timers of cow i in this step: the wander timer runs on while the cow is
\* Following, so in the frame that reverts the cow it has reached at least the
\* fed duration (10 s), more than any wander interval (< 7 s); in that same
\* frame the cow resets the wander timer and takes a freshly drawn interval
\* and heading (the heading of the same draw as the interval)
RevertStep(i) ==
    /\ (last'.op = "animate" /\ cows[i].isFed /\ cows'[i].isFed) =>
          /\ cows'[i].wanderTimer = cows[i].wanderTimer + last'.delta
          /\ cows'[i].wanderTimer >= cows'[i].fedTimer
    /\ Reverts(i) =>
          /\ cows[i].wanderTimer + last'.delta >= cows[i].maxFedTime
          /\ cows[i].maxWanderTime < 7 * Second
          /\ cows[i].maxFedTime >= 7 * Second
          /\ cows'[i].wanderTimer = 0
          /\ cows'[i].maxWanderTime >= 3 * Second
          /\ cows'[i].maxWanderTime < 7 * Second
          /\ \E o \in RevertOutcomes :
                /\ cows'[i].maxWanderTime = o.maxWanderTime
                /\ cows'[i].direction = o.direction
                /\ cows'[i].speed = o.speed

\* the re-pick in the reverting frame, without the conclusion about the
\* heading it leaves
RevertRepicks == [][\A i \in DOMAIN cows : RevertStep(i)]_vars

\* a cow that stood still next to its target has just reverted: its wander
\* timer had run past 7 s, and it left with a heading and a timer of 0
RevertRepickSeen ==
    /\ last.op = "animate"
    /\ \E i \in DOMAIN cows :
        /\ last.cows[i].isFed
        /\ last.cows[i].direction = <<0, 0, 0>>
        /\ last.cows[i].wanderTimer >= 7 * Second
        /\ ~cows[i].isFed
        /\ cows[i].wanderTimer = 0
        /\ cows[i].direction # <<0, 0, 0>>
        /\ cows[i].position # last.cows[i].position

\* C35: in the frame that reverts a Following cow to Wandering the cow also
\* picks a new heading and wander interval and resets the wander timer (the
\* wander timer has run on during Following and is at least 10 s, more than
\* any interval), and so a cow that held the zero heading next to its target
\* does not have the zero heading after the revert.
C35_RevertLeavesZeroHeading ==
    [][\A i \in DOMAIN cows :
          /\ RevertStep(i)
          /\ Reverts(i) => cows'[i].direction # <<0, 0, 0>>]_vars
====
